---- MODULE Spec2Model ----
(***************************************************************************)
(* AnalyzerTwo (src/analyzer_two.py): temporal analysis of issue           *)
(* lifecycles.  The analyzer derives each issue's open duration in whole   *)
(* days, averages durations per label, counts issues per calendar month    *)
(* and counts, per label, the issues whose duration exceeds the mean.      *)
(*                                                                         *)
(* An optional value (a timestamp, the duration_days attribute) is a       *)
(* sequence of length 0 (None / attribute not set) or 1.  A timestamp is   *)
(* a number of ticks after Epoch, TicksPerDay ticks to the day.  A Python  *)
(* dict is a sequence of entries in insertion order.  A float mean is the  *)
(* exact fraction [num, den] the division is applied to.                   *)
(***************************************************************************)
EXTENDS Integers, Sequences, FiniteSets, TLC

VARIABLES label_filter, loaded, issues, pc, error, lifecycle, seasonal, bottleneck

vars == <<label_filter, loaded, issues, pc, error, lifecycle, seasonal, bottleneck>>

(***************************************************************************)
(* Bounds of the input space.                                              *)
(***************************************************************************)
MaxIssues == 3
MaxTimedIssues == 2
TicksPerDay == 2

Labels == {"A", "B"}

(* config.get_parameter('label'): None and '' are both falsy at line 48,   *)
(* and both are the empty string here.                                     *)
NoFilter == ""

Filters == {NoFilter, "A"}

(* Tick 0 is midnight of the last day of a year, so that one day later is  *)
(* in another month of another year.                                       *)
Epoch == [year |-> 2023, month |-> 12, day |-> 31]

(***************************************************************************)
(* Helpers                                                                 *)
(***************************************************************************)
RECURSIVE SumSeq(_)
SumSeq(s) == IF s = <<>> THEN 0 ELSE Head(s) + SumSeq(Tail(s))

InSeq(x, s) == \E k \in 1..Len(s) : s[k] = x

Issue(c, u, ls) == [created_date |-> c, updated_date |-> u, labels |-> ls, duration_days |-> <<>>]

(***************************************************************************)
(* datetime: the calendar, subtraction and strftime('%Y-%m')               *)
(***************************************************************************)
IsLeap(y) == (y % 4 = 0 /\ y % 100 # 0) \/ y % 400 = 0

DaysInMonth(y, m) ==
    IF m = 2 THEN (IF IsLeap(y) THEN 29 ELSE 28)
    ELSE IF m \in {4, 6, 9, 11} THEN 30 ELSE 31

NextDay(d) ==
    IF d.day < DaysInMonth(d.year, d.month) THEN [d EXCEPT !.day = d.day + 1]
    ELSE IF d.month < 12 THEN [year |-> d.year, month |-> d.month + 1, day |-> 1]
    ELSE [year |-> d.year + 1, month |-> 1, day |-> 1]

RECURSIVE AddDays(_, _)
AddDays(d, n) == IF n = 0 THEN d ELSE AddDays(NextDay(d), n - 1)

(* The calendar date of the timestamp t ticks after Epoch. *)
DateOf(t) == AddDays(Epoch, t \div TicksPerDay)

(* The code point of a decimal digit, and of '-'. *)
Digit(n) == 48 + n

Hyphen == 45

(* strftime('%Y-%m'): the string as its code points, year on four digits   *)
(* and month on two.                                                       *)
strftime(t) ==
    LET d == DateOf(t)
    IN  << Digit(d.year \div 1000), Digit((d.year \div 100) % 10),
           Digit((d.year \div 10) % 10), Digit(d.year % 10), Hyphen,
           Digit(d.month \div 10), Digit(d.month % 10) >>

(* str < str: lexicographic on code points. *)
RECURSIVE StrLess(_, _)
StrLess(a, b) ==
    IF b = <<>> THEN FALSE
    ELSE IF a = <<>> THEN TRUE
    ELSE IF Head(a) # Head(b) THEN Head(a) < Head(b)
    ELSE StrLess(Tail(a), Tail(b))

(* A variant that rounds the day difference toward zero. *)
DaysTruncated(c, u) ==
    IF u >= c THEN (u - c) \div TicksPerDay ELSE 0 - ((c - u) \div TicksPerDay)

(* (updated - created).days: timedelta normalises to 0 <= seconds < 86400, *)
(* so days is the floor of the difference.                                 *)
timedelta_days(c, u) == (u - c) \div TicksPerDay

(***************************************************************************)
(* calculate_issue_durations                                               *)
(***************************************************************************)
HasDuration(issue) == issue.duration_days # <<>>

calculate_issue_durations(iss) ==
    [i \in 1..Len(iss) |->
        IF iss[i].created_date # <<>> /\ iss[i].updated_date # <<>>
        THEN [iss[i] EXCEPT !.duration_days =
                  <<timedelta_days(iss[i].created_date[1], iss[i].updated_date[1])>>]
        ELSE iss[i]]

(***************************************************************************)
(* The nested loops "for issue in issues: for label in issue.labels", as   *)
(* the sequence of (label, issue) visits in order.                         *)
(***************************************************************************)
RECURSIVE LabelVisits(_)
LabelVisits(iss) ==
    IF iss = <<>> THEN <<>>
    ELSE [k \in 1..Len(Head(iss).labels) |->
             [label |-> Head(iss).labels[k], issue |-> Head(iss)]]
         \o LabelVisits(Tail(iss))

(* The position of the entry of key in a dict, 0 when it has none. *)
RECURSIVE KeyIndex(_, _)
KeyIndex(dict, key) ==
    IF dict = <<>> THEN 0
    ELSE IF dict[Len(dict)].key = key THEN Len(dict)
    ELSE KeyIndex(SubSeq(dict, 1, Len(dict) - 1), key)

(***************************************************************************)
(* issue_lifecycle_visualization                                           *)
(***************************************************************************)
(* A variant that ignores the label filter. *)
lifecycle_unfiltered(iss, f) == iss

(* Lines 48-49: the label filter, applied when it is truthy. *)
lifecycle_filter(iss, f) ==
    IF f # "" THEN SelectSeq(iss, LAMBDA x : InSeq(f, x.labels)) ELSE iss

(* A variant that filters the caller's list in place (issues[:] = ...). *)
lifecycle_filter_in_place(iss, f) == lifecycle_filter(iss, f)

(* Line 49 binds the parameter name to a new list: the list object the     *)
(* caller passed keeps its elements.                                       *)
lifecycle_caller_list(iss, f) == iss

(* Lines 52-57 over visits that all have a duration_days: the dict of      *)
(* label -> list of durations, a key being inserted at its first visit.    *)
RECURSIVE label_durations(_)
label_durations(visits) ==
    IF visits = <<>> THEN <<>>
    ELSE LET dict == label_durations(SubSeq(visits, 1, Len(visits) - 1))
             v == visits[Len(visits)]
             k == KeyIndex(dict, v.label)
         IN  IF k = 0
             THEN Append(dict, [key |-> v.label, value |-> <<v.issue.duration_days[1]>>])
             ELSE [dict EXCEPT ![k].value = Append(@, v.issue.duration_days[1])]

(* Line 59: sum(durations) / len(durations) per label. *)
avg_label_durations(dict) ==
    [k \in 1..Len(dict) |->
        [key |-> dict[k].key,
         value |-> [num |-> SumSeq(dict[k].value), den |-> Len(dict[k].value)]]]

NotCalled == [status |-> "pending", error |-> ""]

(* The outcome of a call: line 57 raises AttributeError at the first       *)
(* visited issue without duration_days; line 62 raises ValueError when     *)
(* the zip of the items of an empty dict is unpacked into two names.      *)
issue_lifecycle_visualization(iss, f) ==
    LET sel == lifecycle_filter(iss, f)
        visits == LabelVisits(sel)
    IN  IF \E k \in 1..Len(visits) : ~HasDuration(visits[k].issue)
        THEN [status |-> "raised", error |-> "AttributeError", aggregated |-> sel,
              computed |-> FALSE, avg_label_durations |-> <<>>,
              plotted |-> FALSE, chart |-> <<>>]
        ELSE LET avg == avg_label_durations(label_durations(visits))
             IN  IF avg = <<>>
                 THEN [status |-> "raised", error |-> "ValueError", aggregated |-> sel,
                       computed |-> TRUE, avg_label_durations |-> avg,
                       plotted |-> FALSE, chart |-> <<>>]
                 ELSE [status |-> "returned", error |-> "", aggregated |-> sel,
                       computed |-> TRUE, avg_label_durations |-> avg,
                       plotted |-> TRUE, chart |-> avg]

(***************************************************************************)
(* seasonal_trends_analysis                                                *)
(***************************************************************************)
(* Lines 77-78: the month strings of the issues that have the timestamp. *)
created_month(iss) ==
    LET have == SelectSeq(iss, LAMBDA x : x.created_date # <<>>)
    IN  [k \in 1..Len(have) |-> strftime(have[k].created_date[1])]

closed_month(iss) ==
    LET have == SelectSeq(iss, LAMBDA x : x.updated_date # <<>>)
    IN  [k \in 1..Len(have) |-> strftime(have[k].updated_date[1])]

(* Series.value_counts(): one entry per distinct value with the number of  *)
(* its occurrences (the order of the entries is replaced by sort_index).   *)
RECURSIVE value_counts(_)
value_counts(column) ==
    IF column = <<>> THEN <<>>
    ELSE LET dict == value_counts(SubSeq(column, 1, Len(column) - 1))
             v == column[Len(column)]
             k == KeyIndex(dict, v)
         IN  IF k = 0 THEN Append(dict, [key |-> v, value |-> 1])
             ELSE [dict EXCEPT ![k].value = @ + 1]

RECURSIVE InsertByKey(_, _)
InsertByKey(s, e) ==
    IF s = <<>> THEN <<e>>
    ELSE IF StrLess(e.key, Head(s).key) THEN <<e>> \o s
    ELSE <<Head(s)>> \o InsertByKey(Tail(s), e)

(* Series.sort_index(): ascending by the index, here strings. *)
RECURSIVE sort_index(_)
sort_index(series) ==
    IF series = <<>> THEN <<>>
    ELSE InsertByKey(sort_index(SubSeq(series, 1, Len(series) - 1)), series[Len(series)])

(* Line 81: DataFrame(dict of lists) raises ValueError when the lists      *)
(* differ in length.                                                       *)
seasonal_trends_analysis(iss) ==
    LET cm == created_month(iss)
        um == closed_month(iss)
    IN  IF Len(cm) # Len(um)
        THEN [status |-> "raised", error |-> "ValueError", seen |-> iss,
              computed |-> FALSE, created_counts |-> <<>>, closed_counts |-> <<>>]
        ELSE [status |-> "returned", error |-> "", seen |-> iss,
              computed |-> TRUE,
              created_counts |-> sort_index(value_counts(cm)),
              closed_counts |-> sort_index(value_counts(um))]

(***************************************************************************)
(* bottleneck_analysis                                                     *)
(***************************************************************************)
(* Line 103: the sum runs over the issues that have duration_days, the     *)
(* divisor is len(issues).                                                 *)
avg_duration(iss) ==
    LET have == SelectSeq(iss, HasDuration)
    IN  [num |-> SumSeq([k \in 1..Len(have) |-> have[k].duration_days[1]]),
         den |-> Len(iss)]

(* A variant with >= for >. *)
exceeds_or_equals(issue, avg) == issue.duration_days[1] * avg.den >= avg.num

(* Line 105: issue.duration_days > avg_duration, with avg = num / den and  *)
(* den > 0.                                                                *)
exceeds(issue, avg) == issue.duration_days[1] * avg.den > avg.num

(* Lines 107-112 *)
RECURSIVE bottleneck_counts(_)
bottleneck_counts(visits) ==
    IF visits = <<>> THEN <<>>
    ELSE LET dict == bottleneck_counts(SubSeq(visits, 1, Len(visits) - 1))
             v == visits[Len(visits)]
             k == KeyIndex(dict, v.label)
         IN  IF k = 0 THEN Append(dict, [key |-> v.label, value |-> 1])
             ELSE [dict EXCEPT ![k].value = @ + 1]

RECURSIVE InsertAscending(_, _)
InsertAscending(s, e) ==
    IF s = <<>> THEN <<e>>
    ELSE IF e.value < Head(s).value THEN <<e>> \o s
    ELSE <<Head(s)>> \o InsertAscending(Tail(s), e)

RECURSIVE SortedAscending(_)
SortedAscending(items) ==
    IF items = <<>> THEN <<>>
    ELSE InsertAscending(SortedAscending(SubSeq(items, 1, Len(items) - 1)), items[Len(items)])

(* A variant: sorted(items, key=count)[::-1], which also reverses ties. *)
sorted_then_reversed(items) ==
    LET s == SortedAscending(items)
    IN  [k \in 1..Len(s) |-> s[Len(s) + 1 - k]]

RECURSIVE InsertByCountDescending(_, _)
InsertByCountDescending(s, e) ==
    IF s = <<>> THEN <<e>>
    ELSE IF Head(s).value >= e.value THEN <<Head(s)>> \o InsertByCountDescending(Tail(s), e)
    ELSE <<e>> \o s

(* Line 115: sorted(items, key=count, reverse=True), a stable sort: items  *)
(* with equal counts keep their order in the dict.                         *)
RECURSIVE sorted_reverse(_)
sorted_reverse(items) ==
    IF items = <<>> THEN <<>>
    ELSE InsertByCountDescending(sorted_reverse(SubSeq(items, 1, Len(items) - 1)),
                                 items[Len(items)])

(* The outcome of a call: line 103 raises ZeroDivisionError on an empty    *)
(* list; line 105 raises AttributeError at the first issue without         *)
(* duration_days; line 115 raises ValueError when no label was counted.    *)
bottleneck_analysis(iss) ==
    IF Len(iss) = 0
    THEN [status |-> "raised", error |-> "ZeroDivisionError", seen |-> iss,
          avg_computed |-> FALSE, avg_duration |-> [num |-> 0, den |-> 1],
          counted |-> FALSE, bottleneck_issues |-> <<>>, bottleneck_counts |-> <<>>,
          plotted |-> FALSE, chart |-> <<>>]
    ELSE LET avg == avg_duration(iss)
         IN  IF \E i \in 1..Len(iss) : ~HasDuration(iss[i])
             THEN [status |-> "raised", error |-> "AttributeError", seen |-> iss,
                   avg_computed |-> TRUE, avg_duration |-> avg,
                   counted |-> FALSE, bottleneck_issues |-> <<>>, bottleneck_counts |-> <<>>,
                   plotted |-> FALSE, chart |-> <<>>]
             ELSE LET slow == SelectSeq(iss, LAMBDA x : exceeds(x, avg))
                      counts == bottleneck_counts(LabelVisits(slow))
                  IN  IF counts = <<>>
                      THEN [status |-> "raised", error |-> "ValueError", seen |-> iss,
                            avg_computed |-> TRUE, avg_duration |-> avg,
                            counted |-> TRUE, bottleneck_issues |-> slow,
                            bottleneck_counts |-> counts,
                            plotted |-> FALSE, chart |-> <<>>]
                      ELSE [status |-> "returned", error |-> "", seen |-> iss,
                            avg_computed |-> TRUE, avg_duration |-> avg,
                            counted |-> TRUE, bottleneck_issues |-> slow,
                            bottleneck_counts |-> counts,
                            plotted |-> TRUE, chart |-> sorted_reverse(counts)]

(***************************************************************************)
(* The input space: what DataLoader().get_issues() may return.             *)
(***************************************************************************)
SeqsUpTo(S, n) == UNION {[1..k -> S] : k \in 0..n}

(* Label lists as the tracker delivers them: no label twice. *)
LabelSeqs == {<<>>, <<"A">>, <<"B">>, <<"A", "B">>}

(* Issues with many label lists and durations absent, 0, 1 or 2 days. *)
LabelledIssues ==
    {Issue(p[1], p[2], ls) :
        p \in {<< <<>>, <<>> >>, << <<0>>, <<0>> >>, << <<0>>, <<TicksPerDay>> >>,
               << <<0>>, <<2 * TicksPerDay>> >>},
        ls \in LabelSeqs}

(* Timestamps: absent, midnight, a tick later, midnight of the next day    *)
(* (in the next month).                                                    *)
Stamps == {<<>>, <<0>>, <<1>>, <<TicksPerDay>>}

TimedIssues == {Issue(c, u, ls) : c \in Stamps, u \in Stamps, ls \in {<<>>, <<"A">>}}

Inputs == SeqsUpTo(LabelledIssues, MaxIssues) \cup SeqsUpTo(TimedIssues, MaxTimedIssues)

(***************************************************************************)
(* The state machine.  pc is the caller's position: run() calls the four   *)
(* methods in order and stops at the first exception; a caller of the      *)
(* public methods may also call one analysis alone on derived issues.      *)
(***************************************************************************)
Init ==
    /\ label_filter \in Filters
    /\ loaded = <<>>
    /\ issues = <<>>
    /\ pc = "new"
    /\ error = ""
    /\ lifecycle = NotCalled
    /\ seasonal = NotCalled
    /\ bottleneck = NotCalled

(* Line 25 *)
GetIssues ==
    /\ pc = "new"
    /\ \E iss \in Inputs : loaded' = iss /\ issues' = iss
    /\ pc' = "loaded"
    /\ UNCHANGED <<label_filter, error, lifecycle, seasonal, bottleneck>>

(* Line 28 *)
CalculateIssueDurations ==
    /\ pc = "loaded"
    /\ issues' = calculate_issue_durations(issues)
    /\ pc' = "derived"
    /\ UNCHANGED <<label_filter, loaded, error, lifecycle, seasonal, bottleneck>>

(* Line 31 *)
IssueLifecycleVisualization ==
    /\ pc = "derived"
    /\ lifecycle' = issue_lifecycle_visualization(issues, label_filter)
    /\ issues' = lifecycle_caller_list(issues, label_filter)
    /\ error' = lifecycle'.error
    /\ pc' = IF lifecycle'.status = "returned" THEN "lifecycle_done" ELSE "failed"
    /\ UNCHANGED <<label_filter, loaded, seasonal, bottleneck>>

(* Line 32, or a call of the method alone *)
SeasonalTrendsAnalysis ==
    /\ pc \in {"lifecycle_done", "derived"}
    /\ seasonal' = seasonal_trends_analysis(issues)
    /\ error' = seasonal'.error
    /\ pc' = IF seasonal'.status = "raised" THEN "failed"
             ELSE IF pc = "lifecycle_done" THEN "seasonal_done" ELSE "done"
    /\ UNCHANGED <<label_filter, loaded, issues, lifecycle, bottleneck>>

(* Line 33, or a call of the method alone *)
BottleneckAnalysis ==
    /\ pc \in {"seasonal_done", "derived"}
    /\ bottleneck' = bottleneck_analysis(issues)
    /\ error' = bottleneck'.error
    /\ pc' = IF bottleneck'.status = "raised" THEN "failed" ELSE "done"
    /\ UNCHANGED <<label_filter, loaded, issues, lifecycle, seasonal>>

Next ==
    \/ GetIssues
    \/ CalculateIssueDurations
    \/ IssueLifecycleVisualization
    \/ SeasonalTrendsAnalysis
    \/ BottleneckAnalysis

Spec == Init /\ [][Next]_vars

(***************************************************************************)
(* Properties                                                              *)
(***************************************************************************)
RECURSIVE SumOver(_, _)
SumOver(iss, I) ==
    IF I = {} THEN 0
    ELSE LET i == CHOOSE j \in I : TRUE
         IN  iss[i].duration_days[1] + SumOver(iss, I \ {i})

Entry(dict, key) == dict[CHOOSE k \in 1..Len(dict) : dict[k].key = key]

Keys(dict) == {dict[k].key : k \in 1..Len(dict)}

WithDuration(iss) == {i \in 1..Len(iss) : iss[i].duration_days # <<>>}

(* The issues taken by the label filter f, carrying label l and having a   *)
(* duration.                                                               *)
Qualifying(iss, f, l) ==
    {i \in WithDuration(iss) :
        /\ f = "" \/ InSeq(f, iss[i].labels)
        /\ InSeq(l, iss[i].labels)}

(* The issues whose duration is strictly greater than num / den. *)
Slower(iss, avg) ==
    {i \in WithDuration(iss) : iss[i].duration_days[1] * avg.den > avg.num}

(* C1: the threshold avg of bottleneck_analysis is the mean of the present  *)
(* durations: their sum divided by the number of issues that have one, an   *)
(* issue without a duration counting neither in the sum nor in the divisor. *)
C1_AvgIsMeanOfPresentDurations ==
    (bottleneck.status # "pending" /\ WithDuration(issues) # {}) =>
        /\ bottleneck.avg_computed
        /\ bottleneck.avg_duration.num * Cardinality(WithDuration(issues))
               = SumOver(issues, WithDuration(issues)) * bottleneck.avg_duration.den

(* run() was entered: the lifecycle view, its first analysis, was called. *)
InRun == lifecycle.status # "pending"

(* C2: in a run over issues of which at least one has both timestamps, no   *)
(* issue lacking a timestamp makes a step fail: no analysis raises on a     *)
(* missing duration_days, and the monthly counter does not raise.           *)
C2_MissingTimestampNeverFailsRun ==
    (InRun /\ \E i \in 1..Len(loaded) :
                  loaded[i].created_date # <<>> /\ loaded[i].updated_date # <<>>) =>
        /\ lifecycle.error # "AttributeError"
        /\ seasonal.error # "ValueError"
        /\ bottleneck.error # "AttributeError"

(* C3: every key of the label -> mean mapping has at least one qualifying   *)
(* issue (taken by the filter, carrying the label, having a duration), and  *)
(* its mean is the sum of the durations of exactly the qualifying issues    *)
(* divided by their number, each issue counting once for each of its labels.*)
C3_LabelMeansAreMeansOfQualifyingIssues ==
    lifecycle.status # "pending" =>
        (lifecycle.computed =>
            /\ \A k, m \in 1..Len(lifecycle.avg_label_durations) :
                   lifecycle.avg_label_durations[k].key = lifecycle.avg_label_durations[m].key
                       => k = m
            /\ \A k \in 1..Len(lifecycle.avg_label_durations) :
                   LET e == lifecycle.avg_label_durations[k]
                       Q == Qualifying(issues, label_filter, e.key)
                   IN  /\ Q # {}
                       /\ e.value.den > 0
                       /\ e.value.num * Cardinality(Q) = SumOver(issues, Q) * e.value.den)

C3_Witness ==
    /\ lifecycle.status = "returned"
    /\ label_filter = "A"
    /\ \E i \in 1..Len(issues) : ~InSeq("A", issues[i].labels) /\ HasDuration(issues[i])
    /\ \E i \in 1..Len(issues) : Len(issues[i].labels) = 2
    /\ Keys(lifecycle.avg_label_durations) = {"A", "B"}
    /\ Entry(lifecycle.avg_label_durations, "A").value = [num |-> 1, den |-> 2]

(* C4: when there are issues and none has a duration, bottleneck_analysis   *)
(* fails at the mean computation: it raises without having computed a mean. *)
C4_NoDurationFailsAtTheMean ==
    (bottleneck.status # "pending" /\ Len(issues) >= 1 /\ WithDuration(issues) = {}) =>
        /\ bottleneck.status = "raised"
        /\ ~bottleneck.avg_computed

(* C5: over at least one issue, an empty aggregate skips the rendering and  *)
(* is no error: the lifecycle view with an empty label -> mean mapping, and *)
(* the bottleneck detector with no issue above avg, return normally without *)
(* a chart.                                                                 *)
C5_EmptyAggregateSkipsRendering ==
    /\ ((lifecycle.status # "pending" /\ Len(issues) >= 1) =>
            ((lifecycle.computed /\ lifecycle.avg_label_durations = <<>>) =>
                 lifecycle.status = "returned" /\ ~lifecycle.plotted))
    /\ (bottleneck.status # "pending" =>
            ((bottleneck.counted /\ bottleneck.bottleneck_issues = <<>>) =>
                 bottleneck.status = "returned" /\ ~bottleneck.plotted))

(* The months (year, month) of the present values of a timestamp field. *)
CreatedMonths(iss) ==
    {<<DateOf(iss[i].created_date[1]).year, DateOf(iss[i].created_date[1]).month>> :
        i \in {j \in 1..Len(iss) : iss[j].created_date # <<>>}}

UpdatedMonths(iss) ==
    {<<DateOf(iss[i].updated_date[1]).year, DateOf(iss[i].updated_date[1]).month>> :
        i \in {j \in 1..Len(iss) : iss[j].updated_date # <<>>}}

Earlier(a, b) == a[1] < b[1] \/ (a[1] = b[1] /\ a[2] < b[2])

(* The k-th month of M in chronological order. *)
NthMonth(M, k) == CHOOSE m \in M : Cardinality({x \in M : Earlier(x, m)}) = k - 1

MonthKey(m) ==
    << Digit(m[1] \div 1000), Digit((m[1] \div 100) % 10), Digit((m[1] \div 10) % 10),
       Digit(m[1] % 10), Hyphen, Digit(m[2] \div 10), Digit(m[2] % 10) >>

(* C6: for every issue sequence seasonal_trends_analysis builds the two     *)
(* tables: one entry per observed month of created_date (of updated_date),  *)
(* in chronological order, with the number of issues whose timestamp is     *)
(* present and falls in that month.                                         *)
C6_MonthlyTablesForEveryInput ==
    seasonal.status # "pending" =>
        /\ seasonal.computed
        /\ Len(seasonal.created_counts) = Cardinality(CreatedMonths(issues))
        /\ \A k \in 1..Len(seasonal.created_counts) :
               LET m == NthMonth(CreatedMonths(issues), k)
               IN  /\ seasonal.created_counts[k].key = MonthKey(m)
                   /\ seasonal.created_counts[k].value =
                          Cardinality({i \in 1..Len(issues) :
                              /\ issues[i].created_date # <<>>
                              /\ DateOf(issues[i].created_date[1]).year = m[1]
                              /\ DateOf(issues[i].created_date[1]).month = m[2]})
        /\ Len(seasonal.closed_counts) = Cardinality(UpdatedMonths(issues))
        /\ \A k \in 1..Len(seasonal.closed_counts) :
               LET m == NthMonth(UpdatedMonths(issues), k)
               IN  /\ seasonal.closed_counts[k].key = MonthKey(m)
                   /\ seasonal.closed_counts[k].value =
                          Cardinality({i \in 1..Len(issues) :
                              /\ issues[i].updated_date # <<>>
                              /\ DateOf(issues[i].updated_date[1]).year = m[1]
                              /\ DateOf(issues[i].updated_date[1]).month = m[2]})

(* C7: after calculate_issue_durations an issue with both timestamps has    *)
(* duration_days = d with d days <= updated - created < d + 1 days (the     *)
(* floor, signed), an issue missing a timestamp has no duration_days, the   *)
(* other fields are as loaded, and nothing was raised.                      *)
C7_DurationIsFloorOfDayDifference ==
    pc = "derived" =>
        /\ error = ""
        /\ Len(issues) = Len(loaded)
        /\ \A i \in 1..Len(loaded) :
               /\ issues[i].created_date = loaded[i].created_date
               /\ issues[i].updated_date = loaded[i].updated_date
               /\ issues[i].labels = loaded[i].labels
               /\ IF loaded[i].created_date # <<>> /\ loaded[i].updated_date # <<>>
                  THEN /\ Len(issues[i].duration_days) = 1
                       /\ LET d == issues[i].duration_days[1]
                              delta == loaded[i].updated_date[1] - loaded[i].created_date[1]
                          IN  d * TicksPerDay <= delta /\ delta < (d + 1) * TicksPerDay
                  ELSE issues[i].duration_days = <<>>

C7_Witness ==
    /\ pc = "derived"
    /\ \E i \in 1..Len(issues) :
           /\ issues[i].created_date = <<1>>
           /\ issues[i].updated_date = <<0>>
           /\ issues[i].duration_days = <<-1>>
    /\ \E i \in 1..Len(issues) :
           /\ issues[i].created_date # <<>>
           /\ issues[i].updated_date = <<>>
           /\ issues[i].duration_days = <<>>

(* C8: the per-label bottleneck counts count exactly the issues whose       *)
(* duration is strictly greater than avg: the selected issues are those     *)
(* issues in order, a label is a key iff one of them carries it, and its    *)
(* count is the number of them carrying it.                                 *)
C8_CountsAreOfIssuesAboveAvg ==
    bottleneck.status # "pending" =>
        (bottleneck.counted =>
            LET S == Slower(issues, bottleneck.avg_duration)
            IN  /\ Len(bottleneck.bottleneck_issues) = Cardinality(S)
                /\ \A k \in 1..Len(bottleneck.bottleneck_issues) :
                       bottleneck.bottleneck_issues[k].duration_days[1]
                           * bottleneck.avg_duration.den > bottleneck.avg_duration.num
                /\ \A l \in Labels :
                       LET n == Cardinality({i \in S : InSeq(l, issues[i].labels)})
                       IN  IF n = 0 THEN l \notin Keys(bottleneck.bottleneck_counts)
                           ELSE /\ l \in Keys(bottleneck.bottleneck_counts)
                                /\ Entry(bottleneck.bottleneck_counts, l).value = n
                /\ \A k, m \in 1..Len(bottleneck.bottleneck_counts) :
                       bottleneck.bottleneck_counts[k].key = bottleneck.bottleneck_counts[m].key
                           => k = m)

C8_Witness ==
    /\ bottleneck.status = "returned"
    /\ \E i \in Slower(issues, bottleneck.avg_duration) : Len(issues[i].labels) = 2
    /\ \E i \in 1..Len(issues) :
           /\ issues[i].labels # <<>>
           /\ issues[i].duration_days[1] * bottleneck.avg_duration.den
                  = bottleneck.avg_duration.num
    /\ "B" \in Keys(bottleneck.bottleneck_counts)
    /\ Entry(bottleneck.bottleneck_counts, "B").value = 1

(* The issues as the loader returned them, with the derived durations. *)
SameIssuesAsLoaded(iss) ==
    /\ Len(iss) = Len(loaded)
    /\ \A i \in 1..Len(loaded) :
           /\ iss[i].created_date = loaded[i].created_date
           /\ iss[i].updated_date = loaded[i].updated_date
           /\ iss[i].labels = loaded[i].labels

(* C9: the label filter restricts the lifecycle view only: the view         *)
(* aggregates the issues whose labels contain the filter, and the monthly   *)
(* counter and the bottleneck detector are given all the loaded issues in   *)
(* the loader's order.                                                      *)
C9_FilterIsLocalToLifecycle ==
    /\ lifecycle.status # "pending" =>
           /\ label_filter # "" =>
                  /\ \A k \in 1..Len(lifecycle.aggregated) :
                         InSeq(label_filter, lifecycle.aggregated[k].labels)
                  /\ Len(lifecycle.aggregated) =
                         Cardinality({i \in 1..Len(loaded) : InSeq(label_filter, loaded[i].labels)})
           /\ label_filter = "" => SameIssuesAsLoaded(lifecycle.aggregated)
    /\ seasonal.status # "pending" => SameIssuesAsLoaded(seasonal.seen)
    /\ bottleneck.status # "pending" => SameIssuesAsLoaded(bottleneck.seen)

C9_Witness ==
    /\ pc = "done"
    /\ label_filter = "A"
    /\ lifecycle.status = "returned"
    /\ Len(lifecycle.aggregated) < Len(loaded)
    /\ seasonal.status = "returned"
    /\ bottleneck.status = "returned"
    /\ Len(bottleneck.seen) = Len(loaded)

(* The position of the first visit of label l while counting. *)
FirstVisit(l) ==
    LET visits == LabelVisits(bottleneck.bottleneck_issues)
    IN  CHOOSE k \in 1..Len(visits) :
            visits[k].label = l /\ \A j \in 1..(k - 1) : visits[j].label # l

(* C10: the (label, count) sequence handed to the chart holds the counted   *)
(* labels, each once with its count, by count descending, labels of equal   *)
(* count in the order of their first visit while counting.                  *)
C10_ChartIsByCountDescendingStable ==
    bottleneck.status # "pending" =>
        (bottleneck.plotted =>
            /\ Len(bottleneck.chart) = Len(bottleneck.bottleneck_counts)
            /\ \A k \in 1..Len(bottleneck.chart) :
                   \E m \in 1..Len(bottleneck.bottleneck_counts) :
                       bottleneck.chart[k] = bottleneck.bottleneck_counts[m]
            /\ \A k, m \in 1..Len(bottleneck.chart) :
                   k < m =>
                       \/ bottleneck.chart[k].value > bottleneck.chart[m].value
                       \/ /\ bottleneck.chart[k].value = bottleneck.chart[m].value
                          /\ FirstVisit(bottleneck.chart[k].key)
                                 < FirstVisit(bottleneck.chart[m].key))

C10_Witness ==
    /\ bottleneck.status = "returned"
    /\ Len(bottleneck.chart) = 2
    /\ bottleneck.chart[1].key = "B"
    /\ bottleneck.chart[2].key = "A"
    /\ bottleneck.chart[1].value = bottleneck.chart[2].value

====
